---- MODULE Spec2Model ----
(***************************************************************************)
(* Model of the real-time telemetry layer of the enzyme-room frontend:     *)
(*   - the useWebSocket hook (reconnecting push channel), including the    *)
(*     React render / effect cycle that re-creates `connect`;              *)
(*   - SensorMonitoring's live buffer and getChartData merge.              *)
(***************************************************************************)
EXTENDS Integers, Sequences, FiniteSets, Bags, TLC

\* ---------------------------------------------------------------- bounds
MaxSockets  == 2   \* WebSocket objects that are not yet CLOSED, at one time
MaxTimers   == 1   \* reconnection timers pending at one time
MaxAttempts == 2   \* largest value of reconnectAttempts explored
MaxFailures == 2   \* largest count of consecutive failures explored

MaxTs       == 2   \* timestamps are 1..MaxTs (and the invalid date)
MaxHist     == 2   \* longest batch of historical readings
MaxLive     == 1   \* most live readings pushed to one room
TicksPerMinute == 2 \* timestamps that share one hour:minute label

MaxSmallBatch == 3 \* short histories have 0..MaxSmallBatch readings
MaxBatch    == 52  \* long histories have ChartCap - 2 .. MaxBatch readings
MaxLiveTs   == 7   \* pushed readings carry the times 1..MaxLiveTs
MaxStored   == 2   \* most readings the backend stores for one room
MaxPush     == 52  \* most readings pushed to one room in a long run
MaxInFlight == 2   \* most lifecycle requests in flight that are explored

\* ------------------------------------------------------ program constants
BaseDelay == 1000
MaxDelay  == 30000
ChartCap  == 50    \* .slice(-50) of getChartData
FetchLimit == 50   \* ?limit=50 of the readings fetch
PollInterval == 30000          \* refetchInterval of SensorMonitoring
CustomerPollInterval == 10000  \* refetchInterval of CustomerApp
LiveKeep  == 49    \* roomData.slice(-49) of onSensorReading

Kinds    == {"sensor_reading", "alert", "lifecycle_update"}
MsgTypes == Kinds \cup {"connected", "unexpected_kind"}

VARIABLES
  mounted,            \* the component using the hook is mounted
  stableHandlers,     \* the options callbacks keep their identity across renders
  registered,         \* kinds for which a callback was passed in options
  isConnected,        \* useState(false)
  reconnectAttempts,  \* useState(0)
  connectDep,         \* reconnectAttempts captured by the current `connect`
  dirty,              \* a state update is waiting for its render
  sockets,            \* bag of the WebSocket objects that are not CLOSED yet
  timers,             \* bag of the pending setTimeout handles of onclose
  failures,           \* history: consecutive failures since the last open
  resetAfterFail,     \* history: the last open followed at least one failure
  owed,               \* history: a close was handled and connect() has not run since
  lastMsg             \* history: what the last onmessage run did

VARIABLES
  sensorDataMap,      \* useState(new Map()): room -> live data points
  readings,           \* roomsWithSensorData: room -> readings of the last fetch
  chart               \* history: the last getChartData call and its results

VARIABLES
  stored,             \* backend: room -> number of readings it has stored
  latest,             \* roomsWithSensorData: room -> latestReading of the last fetch
  custData,           \* CustomerApp roomsSensorData: room -> reading or null
  queryError,         \* the rooms-sensor-data query is in its error state
  refetchIn           \* ms until the next fetch of each polling query

pollVars == <<stored, latest, custData, queryError, refetchIn>>

VARIABLES
  session,            \* useAuth: a Supabase session (bearer credential) exists
  server,             \* backend: the status of the room R
  cache,              \* the query cache: key -> entry
  mutation,           \* the useMutation that ran last and how far it got
  readAfter,          \* history: what RoomManagement read after a status change
  lastRequest         \* history: the last outbound request

cacheVars == <<session, server, cache, mutation, readAfter, lastRequest>>

VARIABLES
  bookingPage,        \* BookingManagement: its bookings and updateBookingMutation
  alertPanel          \* SensorMonitoring: useState alerts and the alerts query

adminVars == <<bookingPage, alertPanel>>

chartVars == <<sensorDataMap, readings, chart, pollVars, cacheVars, adminVars>>

wsVars == <<mounted, stableHandlers, registered, isConnected, reconnectAttempts,
            connectDep, dirty, sockets, timers, failures, resetAfterFail, owed,
            lastMsg>>

vars == <<wsVars, chartVars>>

\* ---------------------------------------------------------------- helpers
Min(a, b) == IF a <= b THEN a ELSE b

\* A socket is [st, cap, ref]: readyState (CLOSED sockets are dropped), the
\* reconnectAttempts its handlers closed over, and whether wsRef.current is it.
\* A timer is [cap, ref]: the reconnectAttempts its callback closed over (the
\* callback calls the `connect` of that same closure), and whether
\* reconnectTimeoutRef.current is it.
Socket(st, cap, ref) == [st |-> st, cap |-> cap, ref |-> ref]
Timer(cap, ref)      == [cap |-> cap, ref |-> ref]

\* An inbound frame: whether JSON.parse accepts its text, the `type` of the
\* parsed message and whether its `data` is truthy.
Messages ==
  {[parseOk |-> FALSE, type |-> "malformed", hasData |-> FALSE]} \cup
  [parseOk : {TRUE}, type : MsgTypes, hasData : BOOLEAN]

NoCalls == [k \in Kinds |-> 0]

NoMsg == [type |-> "none", parseOk |-> TRUE, hasData |-> FALSE, calls |-> NoCalls,
          logged |-> "none", uncaught |-> FALSE, afterDrop |-> FALSE]

One(x) == SetToBag({x})

IsLive(s) == s.st \in {"connecting", "open"}

\* the number of sockets of the instance that are connecting or open
LiveCount == BagCardinality(BagOfAll(LAMBDA s : s.st,
               [s \in {x \in BagToSet(sockets) : IsLive(x)} |-> sockets[s]]))

\* Math.min(1000 * Math.pow(2, reconnectAttempts), 30000)
Timeout(attempts) == Min(BaseDelay * (2 ^ attempts), MaxDelay)

Unref(b) == BagOfAll(LAMBDA x : [x EXCEPT !.ref = FALSE], b)

\* const ws = new WebSocket(wsUrl); wsRef.current = ws;
\* its handlers close over `attempts`
NewSocket(b, attempts) == Unref(b) (+) One(Socket("connecting", attempts, TRUE))

\* wsRef.current.close(): CONNECTING/OPEN -> CLOSING, otherwise nothing
Close(b) ==
  BagOfAll(LAMBDA x : IF x.ref /\ IsLive(x) THEN [x EXCEPT !.st = "closing"] ELSE x, b)

\* clearTimeout(reconnectTimeoutRef.current)
ClearTimeout(b) == [t \in {x \in BagToSet(b) : ~x.ref} |-> b[t]]

\* reconnectTimeoutRef.current = setTimeout(..., timeout)
SetTimeout(b, attempts) == Unref(b) (+) One(Timer(attempts, TRUE))


\* ------------------------------------------------- SensorMonitoring chart
Rooms      == {"r1", "r2"}
ChartRooms == {"r1"}          \* the room whose inputs SpecChart varies

\* Wire timestamps: 1..MaxTs parse to that time, Unparsable to the invalid
\* date, whose getTime() is NaN.
Unparsable == 0
NaN        == 0 - 1
WireTimes  == 0..MaxTs
\* temperatures in tenths of a degree; the live ones differ from the stored
\* one so that the source of a merged entry can be told
HistReadings == [timestamp : WireTimes, temperature : {215}]
LiveReadings == [timestamp : WireTimes, temperature : {220, 225}]

\* sequences over S of length at most n
SeqsUpTo(S, n) == UNION {[1..k -> S] : k \in 0..n}

\* new Date(x).getTime()
GetTime(w) == IF w = Unparsable THEN NaN ELSE w

\* x / 10 of a fixed-point value
Tenths(x) == [whole |-> x \div 10, tenth |-> x % 10]

\* { timestamp: new Date(r.timestamp), temperature: r.temperature / 10 }
\* (humidity is carried exactly as temperature is)
DataPoint(r) == [timestamp |-> GetTime(r.timestamp), temperature |-> Tenths(r.temperature)]

\* a.getTime() === b.getTime(): NaN equals nothing
SameTime(a, b) == a # NaN /\ b # NaN /\ a = b

\* arr.slice(-n)
LastN(arr, n) ==
  IF Len(arr) <= n THEN arr ELSE SubSeq(arr, Len(arr) - n + 1, Len(arr))

\* Array.prototype.sort with (a, b) => a.getTime() - b.getTime(): a stable
\* sort when every time is valid
RECURSIVE InsertByTime(_, _)
InsertByTime(sorted, p) ==
  IF sorted = <<>> THEN <<p>>
  ELSE IF sorted[Len(sorted)].timestamp <= p.timestamp
       THEN Append(sorted, p)
       ELSE Append(InsertByTime(SubSeq(sorted, 1, Len(sorted) - 1), p),
                   sorted[Len(sorted)])

\* mutant: the merge without its sort
SortKeepsOrder(arr) == arr

RECURSIVE SortByTime(_)
SortByTime(arr) ==
  IF arr = <<>> THEN <<>>
  ELSE InsertByTime(SortByTime(SubSeq(arr, 1, Len(arr) - 1)), arr[Len(arr)])

\* the comparator (a, b) => a.getTime() - b.getTime() as sort() takes it: a
\* NaN result counts as +0
Compare(a, b) ==
  IF a.timestamp = NaN \/ b.timestamp = NaN THEN 0 ELSE a.timestamp - b.timestamp

\* an insertion sort that believes the comparator
RECURSIVE InsertCompared(_, _)
InsertCompared(sorted, p) ==
  IF sorted = <<>> THEN <<p>>
  ELSE IF Compare(sorted[Len(sorted)], p) <= 0
       THEN Append(sorted, p)
       ELSE Append(InsertCompared(SubSeq(sorted, 1, Len(sorted) - 1), p),
                   sorted[Len(sorted)])

RECURSIVE SortCompared(_)
SortCompared(arr) ==
  IF arr = <<>> THEN <<>>
  ELSE InsertCompared(SortCompared(SubSeq(arr, 1, Len(arr) - 1)), arr[Len(arr)])

\* the longest array of which every order is explored
MaxPermuted == MaxHist + MaxLive + 1

\* With an invalid date the comparator returns NaN and is not consistent:
\* the order sort() leaves is implementation-defined, any permutation.  Of a
\* long array one of these orders is explored, that of an insertion sort.
SortResults(arr) ==
  IF \E i \in 1..Len(arr) : arr[i].timestamp = NaN
  THEN IF Len(arr) <= MaxPermuted
       THEN {[i \in 1..Len(arr) |-> arr[f[i]]] : f \in Permutations(1..Len(arr))}
       ELSE {SortCompared(arr)}
  ELSE {SortByTime(arr)}

\* arr.findIndex(i => i.timestamp.getTime() === t), 0 for -1
FindIndex(arr, t) ==
  IF \E i \in 1..Len(arr) : SameTime(arr[i].timestamp, t)
  THEN CHOOSE i \in 1..Len(arr) :
         /\ SameTime(arr[i].timestamp, t)
         /\ \A j \in 1..(i - 1) : ~SameTime(arr[j].timestamp, t)
  ELSE 0

\* mutant: the filter keeps every entry
FilterKeepsAll(arr, n) == SubSeq(arr, 1, n)

\* combined.filter((item, index, arr) => arr.findIndex(...) === index)
RECURSIVE FilterFirst(_, _)
FilterFirst(arr, n) ==
  IF n = 0 THEN <<>>
  ELSE IF FindIndex(arr, arr[n].timestamp) = n
       THEN Append(FilterFirst(arr, n - 1), arr[n])
       ELSE FilterFirst(arr, n - 1)

\* mutant: the merge without its .slice(-50)
UniqueUncapped(combined) == FilterFirst(combined, Len(combined))

\* the `unique` of getChartData for the sorted array `combined`
Unique(combined) == LastN(FilterFirst(combined, Len(combined)), ChartCap)

\* d.timestamp.toLocaleTimeString('ko-KR', {hour, minute}): the minute of d
TimeLabel(t) == t \div TicksPerMinute

\* unique.map(d => ({ time, temperature }))
ChartData(unique) ==
  [i \in 1..Len(unique) |->
     [time |-> TimeLabel(unique[i].timestamp), temperature |-> unique[i].temperature]]

\* a latestReading that is undefined, a reading that is null
Undefined == [timestamp |-> Unparsable, temperature |-> 0]
Null      == [timestamp |-> Unparsable, temperature |-> 0 - 1]

NoChart == [room |-> "none", db |-> <<>>, ws |-> <<>>, unique |-> <<>>, data |-> <<>>]

\* The browser fires the error event and the close event of a failed socket
\* from one task: between the two no other handler, timer or render runs.
NoEventInProgress == \A x \in BagToSet(sockets) : x.st # "errored"

\* ------------------------------------------- query cache and mutations
Statuses == {"available", "occupied"}

\* A query key is an array of strings.  The key of the rooms query of
\* RoomManagement, [API_ENDPOINTS.ROOMS.LIST], is `${DJANGO_API_BASE}/api/rooms/`
\* and DJANGO_API_BASE is never empty.
RoomsKey == <<"DJANGO_API_BASE/api/rooms/">>

\* the keys of the queries the pages mount
QueryKeys == {RoomsKey, <<"/api/rooms/">>, <<"/api/bookings">>,
              <<"/api/bookings/today">>, <<"/api/bookings/today/">>,
              <<"/api/stats/today/">>, <<"/api/customers">>,
              <<"/api/customers", "c1", "journals">>, <<"/api/contracts">>}

\* the keys through which a view shows the data a booking mutation changes
BookingViewKeys == {<<"/api/bookings">>, <<"/api/bookings/today">>,
                    <<"/api/bookings/today/">>, <<"/api/rooms/">>, RoomsKey,
                    <<"/api/stats/today/">>}

\* the queries with a mounted observer: the rooms list of RoomManagement
ActiveKeys == {RoomsKey}

Mutations == {"updateRoomStatusMutation", "updateBookingMutation",
              "createBookingMutation", "createCustomerMutation",
              "createPassMutation", "contractCreateMutation",
              "contractUpdateMutation", "contractDeleteMutation"}

\* the invalidateQueries calls of the onSuccess of mutation m
Invalidates(m) ==
  CASE m = "updateRoomStatusMutation" -> {RoomsKey}
    [] m \in {"updateBookingMutation", "createBookingMutation"} ->
         {<<"/api/bookings">>, <<"/api/rooms/">>, <<"/api/stats/today">>}
    [] m \in {"createCustomerMutation", "createPassMutation"} -> {<<"/api/customers">>}
    [] OTHER -> {<<"/api/contracts">>}

\* What the onError of mutation m does with an error: the handlers that test
\* isUnauthorizedError redirect to the login on an authorization error and
\* show a toast otherwise; contractCreateMutation always shows its toast;
\* contractUpdateMutation and contractDeleteMutation have no onError.
Surfaced(m, outcome) ==
  CASE m \in {"contractUpdateMutation", "contractDeleteMutation"} -> "none"
    [] m = "contractCreateMutation" -> "toast"
    [] OTHER -> IF outcome = "unauthorized" THEN "redirect" ELSE "toast"

NoMutation == [name |-> "none", phase |-> "idle", target |-> "available",
               sent |-> FALSE, surfaced |-> "none"]
NoRead     == [value |-> "unread", fresh |-> FALSE]
NoRequest  == [via |-> "none", sent |-> FALSE, credential |-> FALSE, hadSession |-> FALSE]

\* apiRequest(method, url, data): attaches the bearer credential of the
\* session; without a session it fails with an authorization error unsent
apiRequest(sess) ==
  [via |-> "apiRequest", sent |-> sess, credential |-> sess, hadSession |-> sess]

\* the default queryFn of the query client, for a key without its own queryFn
defaultQueryFn(sess) ==
  [via |-> "queryFn", sent |-> sess, credential |-> sess, hadSession |-> sess]

\* fetch(url) and fetch(url, { method }) as the components call it
RawFetch(sess) ==
  [via |-> "fetch", sent |-> TRUE, credential |-> FALSE, hadSession |-> sess]

\* mutant: onSuccess without its invalidateQueries calls
InvalidateNothing(c, keys) == c

\* partialMatchKey: the filter key is a prefix of the query key, element by
\* element
PartialMatch(filter, key) ==
  /\ Len(filter) <= Len(key)
  /\ SubSeq(key, 1, Len(filter)) = filter

\* queryClient.invalidateQueries for each filter key of `keys`: the entries
\* it matches are marked invalidated and, when a component observes them,
\* re-fetched
Invalidate(c, keys) ==
  [k \in QueryKeys |->
     IF \E filter \in keys : PartialMatch(filter, k)
     THEN [c[k] EXCEPT !.invalidated = TRUE, !.fetching = (k \in ActiveKeys)]
     ELSE c[k]]

\* after window.location.href = "/api/login" the page is gone
Redirected == mutation.surfaced = "redirect"

\* ------------------------------------------------- booking management
Bookings        == {"b1", "b2"}
BookingStatuses == {"confirmed", "in_progress", "completed", "cancelled", "no_show"}
Actions         == {"checkin", "checkout", "cancel"}

NoLifecycleRequest == [booking |-> "none", action |-> "none", method |-> "none",
                       path |-> "none", status |-> "none", shown |-> "none",
                       started |-> FALSE]

\* The page with two confirmed bookings whose start time lies ahead.
\*   server  : the status the backend holds for each booking
\*   shown   : booking.status of the cached list the table renders
\*   started : new Date() >= new Date(booking.startTime)
\*   stale   : ['/api/bookings'] is invalidated and its re-fetch under way
\*   isPending, inFlight, request : updateBookingMutation and its requests
NoBookingActivity ==
  [server    |-> [b \in Bookings |-> "confirmed"],
   shown     |-> [b \in Bookings |-> "confirmed"],
   started   |-> [b \in Bookings |-> FALSE],
   stale     |-> FALSE,
   isPending |-> FALSE,
   inFlight  |-> 0,
   request   |-> NoLifecycleRequest]

canCheckin(b)  == bookingPage.shown[b] = "confirmed" /\ bookingPage.started[b]
canCheckout(b) == bookingPage.shown[b] = "in_progress"
canCancel(b)   == bookingPage.shown[b] = "confirmed"

\* the button of `action` is rendered in the row of booking b
Rendered(b, action) ==
  CASE action = "checkin"  -> canCheckin(b)
    [] action = "checkout" -> canCheckout(b)
    [] action = "cancel"   -> canCancel(b)

\* the request of mutationFn({ bookingId, action }): cancel PATCHes the
\* booking with { status: 'cancelled' }, the others POST to the action
LifecycleRequest(b, action) ==
  IF action = "cancel"
  THEN [booking |-> b, action |-> action, method |-> "PATCH",
        path |-> "/api/bookings/:id", status |-> "cancelled",
        shown |-> bookingPage.shown[b], started |-> bookingPage.started[b]]
  ELSE [booking |-> b, action |-> action, method |-> "POST",
        path |-> "/api/bookings/:id/:action", status |-> "none",
        shown |-> bookingPage.shown[b], started |-> bookingPage.started[b]]

\* the status the backend gives a booking when it accepts the action
Transition(action) ==
  CASE action = "checkin"  -> "in_progress"
    [] action = "checkout" -> "completed"
    [] action = "cancel"   -> "cancelled"

\* the backend accepts the action for a booking of this status
Accepts(status, action) ==
  \/ action \in {"checkin", "cancel"} /\ status = "confirmed"
  \/ action = "checkout" /\ status = "in_progress"

\* ------------------------------------------------------- alert panel
AlertOrder(a) == CASE a = "a1" -> 1 [] a = "a2" -> 2 [] a = "a3" -> 3

Alerts == {"a1", "a2", "a3"}

\* alerts: the list the card shows (useState); alertsData: the data of the
\* ['/api/alerts/undismissed'] query; undismissed: what the backend holds
NoAlerts == [alerts |-> <<>>, alertsData |-> <<>>, undismissed |-> {}]

\* prev.filter(a => a.id !== alertId)
RECURSIVE WithoutAlert(_, _)
WithoutAlert(list, alertId) ==
  IF list = <<>> THEN <<>>
  ELSE IF Head(list) = alertId THEN WithoutAlert(Tail(list), alertId)
       ELSE <<Head(list)>> \o WithoutAlert(Tail(list), alertId)

\* the undismissed alerts as the backend lists them
RECURSIVE Listed(_)
Listed(set) ==
  IF set = {} THEN <<>>
  ELSE LET a == CHOOSE x \in set : \A y \in set : x = y \/ AlertOrder(x) < AlertOrder(y)
       IN  <<a>> \o Listed(set \ {a})

\* ----------------------------------------------------------------- Init
\* The hook has been mounted and its effect has run connect() once.
HookInit ==
  /\ mounted = TRUE
  /\ isConnected = FALSE
  /\ reconnectAttempts = 0
  /\ connectDep = 0
  /\ dirty = FALSE
  /\ sockets = NewSocket(EmptyBag, 0)
  /\ timers = EmptyBag
  /\ failures = 0
  /\ resetAfterFail = FALSE
  /\ owed = FALSE
  /\ lastMsg = NoMsg

\* SensorMonitoring, CustomerApp and the admin pages as they are mounted:
\* empty live buffers, nothing fetched yet, a session, the rooms list loaded.
PageInit ==
  /\ sensorDataMap = [r \in Rooms |-> <<>>]
  /\ readings = [r \in Rooms |-> <<>>]
  /\ chart = NoChart
  /\ stored = [r \in Rooms |-> 0]
  /\ latest = [r \in Rooms |-> Undefined]
  /\ custData = [r \in Rooms |-> Null]
  /\ queryError = FALSE
  /\ refetchIn = [monitoring |-> 0, customer |-> 0]
  /\ session = TRUE
  /\ server = "available"
  /\ cache = [k \in QueryKeys |->
                [data |-> IF k = RoomsKey THEN "available" ELSE "loaded",
                 invalidated |-> FALSE, fetching |-> FALSE]]
  /\ mutation = NoMutation
  /\ readAfter = NoRead
  /\ lastRequest = NoRequest
  /\ bookingPage = NoBookingActivity
  /\ alertPanel = NoAlerts

\* The hook used on its own, by a component that keeps none of the pages'
\* state: the variables of the pages hold no value.
NoPage ==
  /\ sensorDataMap = "absent"
  /\ readings = "absent"
  /\ chart = "absent"
  /\ stored = "absent"
  /\ latest = "absent"
  /\ custData = "absent"
  /\ queryError = "absent"
  /\ refetchIn = "absent"
  /\ session = "absent"
  /\ server = "absent"
  /\ cache = "absent"
  /\ mutation = "absent"
  /\ readAfter = "absent"
  /\ lastRequest = "absent"
  /\ bookingPage = "absent"
  /\ alertPanel = "absent"

\* SensorMonitoring passes all three callbacks; they are inline there
\* (stableHandlers = FALSE), memoised or absent elsewhere.
Init ==
  /\ HookInit
  /\ NoPage
  /\ stableHandlers \in BOOLEAN
  /\ registered = Kinds

\* any subset of the callbacks registered, with stable identities
InitMsg ==
  /\ HookInit
  /\ NoPage
  /\ stableHandlers = TRUE
  /\ registered \in SUBSET Kinds

\* -------------------------------------------------------------- handlers
\* ws.onopen of socket s
onopen(s) ==
  /\ NoEventInProgress
  /\ s.st = "connecting"
  /\ sockets' = (sockets (-) One(s)) (+) One([s EXCEPT !.st = "open"])
  /\ IF mounted
     THEN /\ isConnected' = TRUE
          /\ reconnectAttempts' = 0
          /\ dirty' = (dirty \/ ~isConnected \/ reconnectAttempts # 0)
     ELSE UNCHANGED <<isConnected, reconnectAttempts, dirty>>
  /\ failures' = 0
  /\ resetAfterFail' = (resetAfterFail \/ failures >= 1)
  /\ lastMsg' = NoMsg
  /\ UNCHANGED <<mounted, stableHandlers, registered, connectDep, timers, owed>>
  /\ UNCHANGED chartVars

\* mutant: a default case hands unknown types to onSensorReading
DispatchDefaultCase(m, reg) ==
  [k \in Kinds |->
     IF /\ k \in reg /\ m.hasData
        /\ (m.type = k \/ (k = "sensor_reading" /\ m.type = "unexpected_kind"))
     THEN 1 ELSE 0]

\* mutant: the sensor_reading case lacks its break and falls into the alert case
DispatchFallThrough(m, reg) ==
  [k \in Kinds |->
     IF /\ k \in reg /\ m.hasData
        /\ (m.type = k \/ (k = "alert" /\ m.type = "sensor_reading"))
     THEN 1 ELSE 0]

\* the switch of ws.onmessage: how often it calls the callback of each kind
Dispatch(m, reg) ==
  [k \in Kinds |-> IF m.type = k /\ k \in reg /\ m.hasData THEN 1 ELSE 0]

\* mutant: no try/catch around JSON.parse
HandleMessageNoCatch(m, reg) ==
  IF m.parseOk
  THEN [calls |-> [k \in Kinds |-> IF m.type = k /\ k \in reg /\ m.hasData THEN 1 ELSE 0],
        logged |-> IF m.type = "connected" THEN "info" ELSE "none",
        uncaught |-> FALSE]
  ELSE [calls |-> NoCalls, logged |-> "none", uncaught |-> TRUE]

\* the body of ws.onmessage: try { JSON.parse; switch } catch { console.error }
HandleMessage(m, reg) ==
  IF m.parseOk
  THEN [calls |-> Dispatch(m, reg),
        logged |-> IF m.type = "connected" THEN "info" ELSE "none",
        uncaught |-> FALSE]
  ELSE [calls |-> NoCalls, logged |-> "error", uncaught |-> FALSE]

\* ws.onmessage of socket s for the frame m (frames still arrive while the
\* closing handshake of s is under way)
onmessage(s, m) ==
  /\ NoEventInProgress
  /\ s.st \in {"open", "closing"}
  /\ lastMsg' = [type |-> m.type, parseOk |-> m.parseOk, hasData |-> m.hasData,
                 calls |-> HandleMessage(m, registered).calls,
                 logged |-> HandleMessage(m, registered).logged,
                 uncaught |-> HandleMessage(m, registered).uncaught,
                 afterDrop |-> (lastMsg.logged = "error")]
  /\ UNCHANGED <<mounted, stableHandlers, registered, isConnected,
                 reconnectAttempts, connectDep, dirty, sockets, timers,
                 failures, resetAfterFail, owed>>
  /\ UNCHANGED chartVars

\* mutant: onerror does what onclose does
onerrorReconnects(s) ==
  /\ NoEventInProgress
  /\ IsLive(s)
  /\ BagCardinality(timers) < MaxTimers
  /\ failures < MaxFailures
  /\ sockets' = (sockets (-) One(s)) (+) One([s EXCEPT !.st = "errored"])
  /\ isConnected' = FALSE
  /\ dirty' = (dirty \/ isConnected)
  /\ timers' = SetTimeout(timers, s.cap)
  /\ owed' = TRUE
  /\ lastMsg' = NoMsg
  /\ UNCHANGED <<mounted, stableHandlers, registered, reconnectAttempts,
                 connectDep, failures, resetAfterFail>>
  /\ UNCHANGED chartVars

\* ws.onerror of socket s: console.error only.  The browser delivers the
\* close event of the failed socket next.
onerror(s) ==
  /\ NoEventInProgress
  /\ IsLive(s)
  /\ BagCardinality(timers) < MaxTimers
  /\ failures < MaxFailures
  /\ sockets' = (sockets (-) One(s)) (+) One([s EXCEPT !.st = "errored"])
  /\ lastMsg' = NoMsg
  /\ UNCHANGED <<mounted, stableHandlers, registered, isConnected,
                 reconnectAttempts, connectDep, dirty, timers, failures,
                 resetAfterFail, owed>>
  /\ UNCHANGED chartVars

\* the close event of s reports a failure unless the hook closed s itself
IsFailure(s) == s.st # "closing"

\* ws.onclose of socket s:
\*   setIsConnected(false); reconnectTimeoutRef.current = setTimeout(..., timeout)
onclose(s) ==
  /\ s.st = "errored" \/ NoEventInProgress
  /\ BagCardinality(timers) < MaxTimers
  /\ (IsFailure(s) => failures < MaxFailures)
  /\ sockets' = sockets (-) One(s)
  /\ IF mounted
     THEN /\ isConnected' = FALSE
          /\ dirty' = (dirty \/ isConnected)
     ELSE UNCHANGED <<isConnected, dirty>>
  /\ timers' = SetTimeout(timers, s.cap)
  /\ failures' = IF IsFailure(s) THEN failures + 1 ELSE failures
  /\ resetAfterFail' = (resetAfterFail /\ ~IsFailure(s))
  /\ owed' = TRUE
  /\ lastMsg' = NoMsg
  /\ UNCHANGED <<mounted, stableHandlers, registered, reconnectAttempts, connectDep>>
  /\ UNCHANGED chartVars

\* mutant: the callback gives up after the first retry
reconnectGivesUp(t) ==
  /\ NoEventInProgress
  /\ BagCardinality(sockets) < MaxSockets
  /\ (mounted => reconnectAttempts < MaxAttempts)
  /\ timers' = timers (-) One(t)
  /\ IF t.cap >= 1
     THEN UNCHANGED <<reconnectAttempts, dirty, sockets, owed>>
     ELSE /\ IF mounted
             THEN /\ reconnectAttempts' = reconnectAttempts + 1
                  /\ dirty' = TRUE
             ELSE UNCHANGED <<reconnectAttempts, dirty>>
          /\ sockets' = NewSocket(sockets, t.cap)
          /\ owed' = FALSE
  /\ lastMsg' = NoMsg
  /\ UNCHANGED <<mounted, stableHandlers, registered, isConnected, connectDep,
                 failures, resetAfterFail>>
  /\ UNCHANGED chartVars

\* the setTimeout callback of onclose:
\*   setReconnectAttempts(prev => prev + 1); connect();
reconnect(t) ==
  /\ NoEventInProgress
  /\ BagCardinality(sockets) < MaxSockets
  /\ (mounted => reconnectAttempts < MaxAttempts)
  /\ timers' = timers (-) One(t)
  /\ IF mounted
     THEN /\ reconnectAttempts' = reconnectAttempts + 1
          /\ dirty' = TRUE
     ELSE UNCHANGED <<reconnectAttempts, dirty>>
  /\ sockets' = NewSocket(sockets, t.cap)
  /\ owed' = FALSE
  /\ lastMsg' = NoMsg
  /\ UNCHANGED <<mounted, stableHandlers, registered, isConnected, connectDep,
                 failures, resetAfterFail>>
  /\ UNCHANGED chartVars

\* useCallback returns a new `connect` when one of its dependencies changed
ConnectChanged == ~stableHandlers \/ connectDep # reconnectAttempts

\* A render of the component; when `connect` changed the effect runs its
\* cleanup and then connect().
Render ==
  /\ NoEventInProgress
  /\ mounted
  /\ dirty \/ ~stableHandlers
  /\ dirty' = FALSE
  /\ IF ConnectChanged
     THEN /\ BagCardinality(sockets) < MaxSockets
          /\ timers' = ClearTimeout(timers)
          /\ sockets' = NewSocket(Close(sockets), reconnectAttempts)
          /\ connectDep' = reconnectAttempts
          /\ owed' = FALSE
     ELSE UNCHANGED <<timers, sockets, connectDep, owed>>
  /\ lastMsg' = NoMsg
  /\ UNCHANGED <<mounted, stableHandlers, registered, isConnected,
                 reconnectAttempts, failures, resetAfterFail>>
  /\ UNCHANGED chartVars

\* Unmount: the effect cleanup runs, nothing else.
Unmount ==
  /\ NoEventInProgress
  /\ mounted
  /\ mounted' = FALSE
  /\ dirty' = FALSE
  /\ timers' = ClearTimeout(timers)
  /\ sockets' = Close(sockets)
  /\ lastMsg' = NoMsg
  /\ UNCHANGED <<stableHandlers, registered, isConnected, reconnectAttempts,
                 connectDep, failures, resetAfterFail, owed>>
  /\ UNCHANGED chartVars

Next ==
  \/ \E s \in BagToSet(sockets) : onopen(s)
  \/ \E s \in BagToSet(sockets) : onerror(s)
  \/ \E s \in BagToSet(sockets) : onclose(s)
  \/ \E t \in BagToSet(timers) : reconnect(t)
  \/ Render
  \/ Unmount

Spec == Init /\ [][Next]_vars

\* The hook with frames arriving on its sockets.  The handlers of a socket are
\* fixed when connect() creates it, so renders are left out of this one.
NextMsg ==
  \/ \E s \in BagToSet(sockets) : \E m \in Messages : onmessage(s, m)
  \/ \E s \in BagToSet(sockets) : onopen(s)
  \/ \E s \in BagToSet(sockets) : onerror(s)
  \/ \E s \in BagToSet(sockets) : onclose(s)
  \/ \E t \in BagToSet(timers) : reconnect(t)
  \/ Unmount

SpecMsg == InitMsg /\ [][NextMsg]_vars


\* ---------------------------------------------- SensorMonitoring actions
\* the queryFn of '/api/rooms-sensor-data' resolved with `batch` for room r
queryFn(r, batch) ==
  /\ readings' = [readings EXCEPT ![r] = batch]
  /\ chart' = NoChart
  /\ UNCHANGED <<sensorDataMap, wsVars, pollVars, cacheVars, adminVars>>

\* mutant: the buffer keeps 50 old points and adds the new one
onSensorReadingKeepsFifty(reading, roomId) ==
  /\ sensorDataMap' = [sensorDataMap EXCEPT ![roomId] =
                         Append(LastN(@, LiveKeep + 1), DataPoint(reading))]
  /\ chart' = NoChart
  /\ UNCHANGED <<readings, wsVars, pollVars, cacheVars, adminVars>>

\* mutant: the new point is appended to the buffer of every room
onSensorReadingAllRooms(reading, roomId) ==
  /\ sensorDataMap' = [o \in DOMAIN sensorDataMap |->
                         Append(LastN(sensorDataMap[o], LiveKeep), DataPoint(reading))]
  /\ chart' = NoChart
  /\ UNCHANGED <<readings, wsVars, pollVars, cacheVars, adminVars>>

\* the onSensorReading callback passed to useWebSocket
onSensorReading(reading, roomId) ==
  /\ sensorDataMap' = [sensorDataMap EXCEPT ![roomId] =
                         Append(LastN(@, LiveKeep), DataPoint(reading))]
  /\ chart' = NoChart
  /\ UNCHANGED <<readings, wsVars, pollVars, cacheVars, adminVars>>

\* getChartData(roomId, readings) as the render of a room card calls it
getChartData(roomId) ==
  LET wsData == sensorDataMap[roomId]
      dbData == [i \in 1..Len(readings[roomId]) |-> DataPoint(readings[roomId][i])]
  IN  /\ \E combined \in SortResults(dbData \o wsData) :
            chart' = [room |-> roomId, db |-> dbData, ws |-> wsData,
                      unique |-> Unique(combined),
                      data |-> ChartData(Unique(combined))]
      /\ UNCHANGED <<sensorDataMap, readings, wsVars, pollVars, cacheVars, adminVars>>

InitChart ==
  /\ HookInit
  /\ PageInit
  /\ stableHandlers = FALSE
  /\ registered = Kinds

NextChart ==
  \/ \E r \in ChartRooms : \E batch \in SeqsUpTo(HistReadings, MaxHist) : queryFn(r, batch)
  \/ \E r \in ChartRooms : \E reading \in LiveReadings :
       Len(sensorDataMap[r]) < MaxLive /\ onSensorReading(reading, r)
  \/ \E r \in ChartRooms : getChartData(r)

SpecChart == InitChart /\ [][NextChart]_vars

\* The chart of a room whose history is long: the fetch returns n readings
\* at the times Spacing, 2 * Spacing, ..., oldest or newest first, and the
\* live readings fall on or between those times.
BatchSizes == (0..MaxSmallBatch) \cup ((ChartCap - 2)..MaxBatch)
Spacing    == 2

Batch(n, newestFirst) ==
  [i \in 1..n |-> [timestamp |-> Spacing * (IF newestFirst THEN n + 1 - i ELSE i),
                   temperature |-> 215]]

PushedReadings == [timestamp : 1..MaxLiveTs, temperature : {220}]

NextBatch ==
  \/ \E r \in ChartRooms : \E n \in BatchSizes : \E newestFirst \in BOOLEAN :
       queryFn(r, Batch(n, newestFirst))
  \/ \E r \in ChartRooms : \E reading \in PushedReadings :
       Len(sensorDataMap[r]) < MaxLive /\ onSensorReading(reading, r)
  \/ \E r \in ChartRooms : getChartData(r)

SpecBatch == InitChart /\ [][NextBatch]_vars

\* A long history of which one reading may carry a timestamp that does not
\* parse: the k-th of the batch, none for k = 0.
CorruptAt == 0..2

Corrupt(batch, k) ==
  IF k \in 1..Len(batch)
  THEN [batch EXCEPT ![k] = [@ EXCEPT !.timestamp = Unparsable]]
  ELSE batch

NextLong ==
  \/ \E r \in ChartRooms : \E n \in BatchSizes : \E newestFirst \in BOOLEAN :
       \E k \in CorruptAt : queryFn(r, Corrupt(Batch(n, newestFirst), k))
  \/ \E r \in ChartRooms : \E reading \in PushedReadings :
       Len(sensorDataMap[r]) < MaxLive /\ onSensorReading(reading, r)
  \/ \E r \in ChartRooms : getChartData(r)

SpecLong == InitChart /\ [][NextLong]_vars

\* A long run of pushes: the n-th reading pushed for a room carries the
\* time n, so the newest point of a buffer tells how many were pushed.
Pushes(r) ==
  IF sensorDataMap[r] = <<>> THEN 0
  ELSE sensorDataMap[r][Len(sensorDataMap[r])].timestamp

NextPush ==
  \E r \in Rooms :
    /\ Pushes(r) < MaxPush
    /\ onSensorReading([timestamp |-> Pushes(r) + 1, temperature |-> 220], r)

SpecPush == InitChart /\ [][NextPush]_vars

\* what getChartData(r, readings of r) can return in the current state
MergedCharts(r) ==
  LET wsData == sensorDataMap[r]
      dbData == [i \in 1..Len(readings[r]) |-> DataPoint(readings[r][i])]
  IN  {ChartData(Unique(combined)) : combined \in SortResults(dbData \o wsData)}

\* The cards of all rooms side by side: each room has fetched at most one
\* reading, gets its first live reading, and has its chart computed.
NextRooms ==
  \/ \E r \in Rooms : \E batch \in SeqsUpTo(HistReadings, 1) : queryFn(r, batch)
  \/ \E r \in Rooms : \E reading \in LiveReadings :
       sensorDataMap[r] = <<>> /\ onSensorReading(reading, r)
  \/ \E r \in Rooms : getChartData(r)

SpecRooms == InitChart /\ [][NextRooms]_vars

\* ------------------------------------------------------ polling queries
\* how one fetch() of a poll ends: a 2xx response, another status, a rejection
Outcome == {"ok", "status", "network"}

\* the readings the backend holds for a room, oldest first: reading i was
\* stored at time i
StoredReadings(n) == [i \in 1..n |-> [timestamp |-> i, temperature |-> 215]]

\* the body of GET /api/sensor/readings/:id?limit=50
ReadingsResponse(n) == LastN(StoredReadings(n), FetchLimit)

\* roomWithData?.sensorReadings?.[0] of GET /api/rooms/:id/sensor-data
LatestOf(n) == IF n = 0 THEN Undefined ELSE StoredReadings(n)[n]

\* the backend stores one more reading of room r
backendStores(r) ==
  /\ stored[r] < MaxStored
  /\ stored' = [stored EXCEPT ![r] = @ + 1]
  /\ UNCHANGED <<latest, custData, queryError, refetchIn>>
  /\ UNCHANGED <<sensorDataMap, readings, chart, wsVars, cacheVars, adminVars>>

MonitoringOutcomes == [Rooms -> [data : Outcome, list : Outcome]]

\* Promise.all rejects when one fetch() of one room rejects
Rejected(o) == \E r \in Rooms : o[r].data = "network" \/ o[r].list = "network"

\* mutant: the query polls only while the push channel is connected
refetchWhileConnected(o) ==
  /\ isConnected
  /\ IF Rejected(o)
     THEN /\ queryError' = TRUE
          /\ UNCHANGED <<readings, latest>>
     ELSE /\ queryError' = FALSE
          /\ readings' = [r \in Rooms |->
                            IF o[r].list = "ok" THEN ReadingsResponse(stored[r]) ELSE <<>>]
          /\ latest' = [r \in Rooms |->
                          IF o[r].data = "ok" THEN LatestOf(stored[r]) ELSE Undefined]
  /\ refetchIn' = [refetchIn EXCEPT !.monitoring = PollInterval]
  /\ chart' = NoChart
  /\ lastRequest' = RawFetch(session)
  /\ UNCHANGED <<session, server, cache, mutation, readAfter, adminVars>>
  /\ UNCHANGED <<stored, custData, sensorDataMap, wsVars>>

\* One run of the '/api/rooms-sensor-data' query of SensorMonitoring, started
\* by its refetchInterval: the queryFn with the outcomes o of its fetches,
\* then the query cache keeps the result (or, on a throw, its old data).
refetch(o) ==
  /\ IF Rejected(o)
     THEN /\ queryError' = TRUE
          /\ UNCHANGED <<readings, latest>>
     ELSE /\ queryError' = FALSE
          /\ readings' = [r \in Rooms |->
                            IF o[r].list = "ok" THEN ReadingsResponse(stored[r]) ELSE <<>>]
          /\ latest' = [r \in Rooms |->
                          IF o[r].data = "ok" THEN LatestOf(stored[r]) ELSE Undefined]
  /\ refetchIn' = [refetchIn EXCEPT !.monitoring = PollInterval]
  /\ chart' = NoChart
  /\ lastRequest' = RawFetch(session)
  /\ UNCHANGED <<session, server, cache, mutation, readAfter, adminVars>>
  /\ UNCHANGED <<stored, custData, sensorDataMap, wsVars>>

CustomerOutcomes == [Rooms -> Outcome]

\* One run of the "rooms-sensor-data" query of CustomerApp: every failure of
\* a room's fetch is turned into { roomId, reading: null }.
customerRefetch(o) ==
  /\ custData' = [r \in Rooms |->
                    IF o[r] = "ok" /\ stored[r] > 0 THEN LatestOf(stored[r]) ELSE Null]
  /\ refetchIn' = [refetchIn EXCEPT !.customer = CustomerPollInterval]
  /\ lastRequest' = RawFetch(session)
  /\ UNCHANGED <<session, server, cache, mutation, readAfter, adminVars>>
  /\ UNCHANGED <<stored, latest, queryError>>
  /\ UNCHANGED <<sensorDataMap, readings, chart, wsVars>>

\* what the card of room r charts in the current state:
\*   latestReading ? getChartData(room.id, readings) : []
CardCharts(r) ==
  IF latest[r] = Undefined THEN {<<>>}
  ELSE LET wsData == sensorDataMap[r]
           dbData == [i \in 1..Len(readings[r]) |-> DataPoint(readings[r][i])]
       IN  {Unique(combined) : combined \in SortResults(dbData \o wsData)}

\* The polling query of SensorMonitoring next to its push channel, which
\* connects, opens and fails as it likes.  The backend stores readings of
\* the charted room.
NextMonitoring ==
  \/ \E r \in ChartRooms : backendStores(r)
  \/ \E o \in MonitoringOutcomes : refetch(o)
  \/ \E s \in BagToSet(sockets) : onopen(s)
  \/ \E s \in BagToSet(sockets) : onerror(s)
  \/ \E s \in BagToSet(sockets) : onclose(s)
  \/ \E t \in BagToSet(timers) : reconnect(t)

\* the polling queries of both pages
NextPoll ==
  \/ NextMonitoring
  \/ \E o \in CustomerOutcomes : customerRefetch(o)

SpecPoll == InitChart /\ [][NextPoll]_vars

AllOk == [r \in Rooms |-> [data |-> "ok", list |-> "ok"]]

\* a poll succeeds from time to time
PollFairness == WF_vars(refetch(AllOk))

SpecPollLive == InitChart /\ [][NextMonitoring]_vars /\ PollFairness

\* ------------------------------------------------ mutations and cache
MutationOutcome == {"ok", "unauthorized", "rejected", "network"}

\* the status a mutation asks for (only the room status mutation has one)
Targets(m) == IF m = "updateRoomStatusMutation" THEN Statuses ELSE {"available"}

\* mutation.mutate(...): the mutationFn calls apiRequest
mutate(m, target) ==
  /\ ~Redirected
  /\ mutation.phase # "pending"
  /\ mutation' = [name |-> m, phase |-> "pending", target |-> target,
                  sent |-> apiRequest(session).sent, surfaced |-> "none"]
  /\ lastRequest' = apiRequest(session)
  /\ readAfter' = NoRead
  /\ UNCHANGED <<session, server, cache>>
  /\ UNCHANGED <<sensorDataMap, readings, chart, pollVars, wsVars, adminVars>>

\* The mutationFn settles with `outcome`; onSuccess or onError runs.  The
\* backend applies a status change it answers with a success.
settle(outcome) ==
  /\ mutation.phase = "pending"
  /\ mutation.sent \/ outcome = "unauthorized"
  /\ IF outcome = "ok"
     THEN /\ server' = IF mutation.name = "updateRoomStatusMutation"
                       THEN mutation.target ELSE server
          /\ mutation' = [mutation EXCEPT !.phase = "success"]
          /\ cache' = Invalidate(cache, Invalidates(mutation.name))
     ELSE /\ mutation' = [mutation EXCEPT !.phase = "error",
                            !.surfaced = Surfaced(mutation.name, outcome)]
          /\ UNCHANGED <<server, cache>>
  /\ UNCHANGED <<session, readAfter, lastRequest>>
  /\ UNCHANGED <<sensorDataMap, readings, chart, pollVars, wsVars, adminVars>>

\* the re-fetch of the rooms list settles
fetchSettles(outcome) ==
  /\ ~Redirected
  /\ cache[RoomsKey].fetching
  /\ defaultQueryFn(session).sent \/ outcome = "unauthorized"
  /\ cache' = [cache EXCEPT ![RoomsKey] =
                 IF outcome = "ok"
                 THEN [data |-> server, invalidated |-> FALSE, fetching |-> FALSE]
                 ELSE [@ EXCEPT !.fetching = FALSE]]
  /\ lastRequest' = defaultQueryFn(session)
  /\ UNCHANGED <<session, server, mutation, readAfter>>
  /\ UNCHANGED <<sensorDataMap, readings, chart, pollVars, wsVars, adminVars>>

\* a render of RoomManagement after its status mutation succeeded reads the
\* rooms list from the cache
readRooms ==
  /\ ~Redirected
  /\ mutation.name = "updateRoomStatusMutation"
  /\ mutation.phase = "success"
  /\ readAfter' = [value |-> cache[RoomsKey].data,
                   fresh |-> ~cache[RoomsKey].invalidated]
  /\ UNCHANGED <<session, server, cache, mutation, lastRequest>>
  /\ UNCHANGED <<sensorDataMap, readings, chart, pollVars, wsVars, adminVars>>

\* useAuth.signOut: signOut() and queryClient.clear()
signOut ==
  /\ ~Redirected
  /\ session
  /\ session' = FALSE
  /\ cache' = [k \in QueryKeys |->
                 [data |-> "none", invalidated |-> FALSE, fetching |-> FALSE]]
  /\ UNCHANGED <<server, mutation, readAfter, lastRequest>>
  /\ UNCHANGED <<sensorDataMap, readings, chart, pollVars, wsVars, adminVars>>

\* onAuthStateChange delivers a session
signIn ==
  /\ ~Redirected
  /\ ~session
  /\ session' = TRUE
  /\ UNCHANGED <<server, cache, mutation, readAfter, lastRequest>>
  /\ UNCHANGED <<sensorDataMap, readings, chart, pollVars, wsVars, adminVars>>

\* The admin pages: their mutations, the rooms list of RoomManagement and the
\* polling query of SensorMonitoring.
NextCache ==
  \/ \E m \in Mutations : \E target \in Targets(m) : mutate(m, target)
  \/ \E outcome \in MutationOutcome : settle(outcome)
  \/ \E outcome \in {"ok", "unauthorized", "network"} : fetchSettles(outcome)
  \/ readRooms
  \/ signOut
  \/ signIn
  \/ refetch(AllOk)

SpecCache == InitChart /\ [][NextCache]_vars

\* ---------------------------------------------------- alert panel actions
\* The backend raises alert a and pushes it: onAlert prepends it to the
\* list and calls refetchAlerts().
onAlert(a) ==
  /\ a \notin alertPanel.undismissed
  /\ \A i \in 1..Len(alertPanel.alerts) : alertPanel.alerts[i] # a
  /\ alertPanel' = [alertPanel EXCEPT !.undismissed = @ \cup {a},
                                      !.alerts = <<a>> \o @]
  /\ UNCHANGED <<wsVars, sensorDataMap, readings, chart, pollVars, cacheVars, bookingPage>>

\* The alerts query delivers the backend's list; the effect on alertsData
\* copies it into the list when the data changed.
alertsRefetched ==
  LET data == Listed(alertPanel.undismissed)
  IN  /\ data # alertPanel.alertsData
      /\ alertPanel' = [alertPanel EXCEPT !.alertsData = data, !.alerts = data]
      /\ UNCHANGED <<wsVars, sensorDataMap, readings, chart, pollVars, cacheVars, bookingPage>>

DismissOutcome == {"ok", "status", "network"}

\* dismissAlert(alertId): await fetch(PATCH .../dismiss), then filter the
\* list.  fetch rejects on a network error only ("network"); an answer with
\* a non-success status ("status") resolves like a success ("ok").
dismissAlert(alertId, outcome) ==
  /\ \E i \in 1..Len(alertPanel.alerts) : alertPanel.alerts[i] = alertId
  /\ outcome = "ok" => alertId \in alertPanel.undismissed
  /\ alertPanel' =
       CASE outcome = "ok" ->
              [alertPanel EXCEPT !.undismissed = @ \ {alertId},
                                 !.alerts = WithoutAlert(@, alertId)]
         [] outcome = "status" ->
              [alertPanel EXCEPT !.alerts = WithoutAlert(@, alertId)]
         [] outcome = "network" -> alertPanel
  /\ UNCHANGED <<wsVars, sensorDataMap, readings, chart, pollVars, cacheVars, bookingPage>>

NextAlerts ==
  \/ \E a \in Alerts : onAlert(a)
  \/ alertsRefetched
  \/ \E a \in Alerts : \E outcome \in DismissOutcome : dismissAlert(a, outcome)

SpecAlerts == InitChart /\ [][NextAlerts]_vars

\* ------------------------------------------- booking management actions
\* the clock reaches the start time of booking b
startTimeReached(b) ==
  /\ ~bookingPage.started[b]
  /\ bookingPage' = [bookingPage EXCEPT !.started[b] = TRUE]
  /\ UNCHANGED <<wsVars, sensorDataMap, readings, chart, pollVars, cacheVars, alertPanel>>

\* the backend marks a booking nobody checked in as no_show
backendMarksNoShow(b) ==
  /\ bookingPage.server[b] = "confirmed"
  /\ bookingPage.started[b]
  /\ bookingPage' = [bookingPage EXCEPT !.server[b] = "no_show"]
  /\ UNCHANGED <<wsVars, sensorDataMap, readings, chart, pollVars, cacheVars, alertPanel>>

\* the ['/api/bookings'] query of the page is fetched again
bookingsRefetched ==
  /\ bookingPage.stale \/ bookingPage.shown # bookingPage.server
  /\ bookingPage' = [bookingPage EXCEPT !.shown = bookingPage.server, !.stale = FALSE]
  /\ UNCHANGED <<wsVars, sensorDataMap, readings, chart, pollVars, cacheVars, alertPanel>>

\* mutant: the buttons are not disabled while the mutation is pending
onClickWhilePending(b, action) ==
  /\ Rendered(b, action)
  /\ bookingPage.inFlight < MaxInFlight
  /\ bookingPage' = [bookingPage EXCEPT !.isPending = TRUE,
                                        !.inFlight = @ + 1,
                                        !.request = LifecycleRequest(b, action)]
  /\ UNCHANGED <<wsVars, sensorDataMap, readings, chart, pollVars, cacheVars, alertPanel>>

\* A click on the button of `action` in the row of booking b: the button
\* is rendered when can<Action>(booking) holds and is disabled while
\* updateBookingMutation.isPending; onClick calls mutate({ bookingId, action }).
onClick(b, action) ==
  /\ Rendered(b, action)
  /\ ~bookingPage.isPending
  /\ bookingPage.inFlight < MaxInFlight
  /\ bookingPage' = [bookingPage EXCEPT !.isPending = TRUE,
                                        !.inFlight = @ + 1,
                                        !.request = LifecycleRequest(b, action)]
  /\ UNCHANGED <<wsVars, sensorDataMap, readings, chart, pollVars, cacheVars, alertPanel>>

LifecycleOutcome == {"ok", "rejected", "network"}

\* The request of updateBookingMutation settles.  The backend answers with
\* a success only an action its booking admits, and then applies it;
\* onSuccess invalidates ['/api/bookings'].
lifecycleSettles(outcome) ==
  LET r == bookingPage.request
  IN  /\ bookingPage.inFlight > 0
      /\ outcome = "ok" => Accepts(bookingPage.server[r.booking], r.action)
      /\ bookingPage' =
           IF outcome = "ok"
           THEN [bookingPage EXCEPT !.server[r.booking] = Transition(r.action),
                                    !.stale = TRUE,
                                    !.isPending = FALSE,
                                    !.inFlight = @ - 1]
           ELSE [bookingPage EXCEPT !.isPending = FALSE, !.inFlight = @ - 1]
      /\ UNCHANGED <<wsVars, sensorDataMap, readings, chart, pollVars, cacheVars, alertPanel>>

NextBooking ==
  \/ \E b \in Bookings : startTimeReached(b)
  \/ \E b \in Bookings : backendMarksNoShow(b)
  \/ \E b \in Bookings : \E action \in Actions : onClick(b, action)
  \/ \E outcome \in LifecycleOutcome : lifecycleSettles(outcome)
  \/ bookingsRefetched

SpecBooking == InitChart /\ [][NextBooking]_vars

\* Timers fire, and the close event of a failed socket follows its error
\* event; nothing else is assumed of the network or of React.
Fairness ==
  /\ WF_vars(\E t \in BagToSet(timers) : reconnect(t))
  /\ WF_vars(\E s \in BagToSet(sockets) : s.st = "errored" /\ onclose(s))

\* what the hook does after teardown is left out here
NextLive == mounted /\ Next

SpecLive == Init /\ [][NextLive]_vars /\ Fairness

\* ------------------------------------------------------------ properties
\* the close event of s is handled and reports a failure
FailureClose(s) == IsFailure(s) /\ onclose(s)

\* a bound of the model stops the hook from creating its next socket
AtBound == \/ BagCardinality(sockets) >= MaxSockets
           \/ reconnectAttempts >= MaxAttempts

\* C1: the k-th consecutive failure since the last successful open schedules
\* its reconnection after min(1000 * 2^k, 30000) ms.
C1_BackoffFollowsFailureCount ==
  [][\A s \in BagToSet(sockets) :
       (mounted /\ FailureClose(s)) => Timeout(s.cap) = Timeout(failures)]_vars

\* C2: at most one socket of the instance is connecting or open.
C2_AtMostOneLiveSocket == LiveCount <= 1

\* C3: after teardown no reconnection timer is pending and the instance
\* creates no further socket.
C3_TeardownStopsReconnection ==
  [][/\ ~mounted' => timers' = EmptyBag
     /\ ~mounted => BagCardinality(sockets') <= BagCardinality(sockets)]_vars

\* C4: an open that follows failures sets the retry counter to 0, and the
\* next failure after it schedules its reconnection after 1000 ms.
C4_OpenResetsBackoff ==
  [][/\ \A s \in BagToSet(sockets) :
          (mounted /\ failures >= 1 /\ onopen(s)) => reconnectAttempts' = 0
     /\ \A s \in BagToSet(sockets) :
          (mounted /\ resetAfterFail /\ FailureClose(s)) =>
              Timeout(s.cap) = BaseDelay]_vars

\* C5: while the hook is mounted, a handled close is eventually followed by a
\* new connect(), whatever the number of failures (up to the model's bounds).
C5_CloseLeadsToConnect ==
  (owed /\ mounted) ~> (~owed \/ ~mounted \/ AtBound)

C5_Witness == owed /\ mounted /\ failures >= 2 /\ ~AtBound

\* C6 as stated: the error event marks the connection closed and schedules a
\* reconnection, as the close event does.
C6_ErrorActsLikeClose ==
  [][\A s \in BagToSet(sockets) :
       (mounted /\ onerror(s)) => (~isConnected' /\ timers' # timers)]_vars

\* C6 amended: the error event changes neither isConnected, the retry counter
\* nor the timers; the close event that follows it marks the connection closed
\* and schedules the reconnection with the delay of the socket's closure.
C6_ErrorOnlyLogs ==
  [][\A s \in BagToSet(sockets) :
       /\ onerror(s) => UNCHANGED <<isConnected, reconnectAttempts, timers, dirty>>
       /\ (s.st = "errored" /\ onclose(s)) =>
             /\ mounted => ~isConnected'
             /\ BagIn(Timer(s.cap, TRUE), timers')
             /\ BagCardinality(timers') = BagCardinality(timers) + 1]_vars

C6_Witness ==
  /\ mounted /\ isConnected
  /\ \E s \in BagToSet(sockets) : s.st = "errored"
  /\ timers = EmptyBag

\* the callback of kind k was called once and no other callback was called
OnlyCalled(k) == lastMsg.calls = [j \in Kinds |-> IF j = k THEN 1 ELSE 0]

\* C7: a message of a type outside sensor_reading, alert, lifecycle_update,
\* connected calls no callback and no exception leaves the handler.
C7_UnknownTypeIgnored ==
  lastMsg.type = "unexpected_kind" => (lastMsg.calls = NoCalls /\ ~lastMsg.uncaught)

C7_Witness ==
  lastMsg.type = "unexpected_kind" /\ lastMsg.hasData /\ registered = Kinds

\* C8: a frame that fails to parse is logged and dropped: no callback runs,
\* no exception leaves the handler, the socket, isConnected, the retry counter
\* and the timers are unchanged, and a well-formed message handled after it is
\* still dispatched.
C8_MalformedDropped ==
  [][/\ \A s \in BagToSet(sockets) : \A m \in Messages :
          (~m.parseOk /\ onmessage(s, m)) =>
             /\ lastMsg'.calls = NoCalls
             /\ lastMsg'.logged = "error"
             /\ ~lastMsg'.uncaught
             /\ UNCHANGED <<sockets, isConnected, reconnectAttempts, timers, owed>>
     /\ (/\ lastMsg'.afterDrop /\ lastMsg'.parseOk /\ lastMsg'.hasData
         /\ lastMsg'.type \in registered) => lastMsg'.calls[lastMsg'.type] = 1]_vars

C8_Witness ==
  /\ lastMsg.afterDrop /\ lastMsg.type = "alert" /\ lastMsg.calls["alert"] = 1
  /\ isConnected /\ timers = EmptyBag

\* C9 as stated: every message of kind sensor_reading, alert or
\* lifecycle_update is delivered exactly once to the callback of its kind and
\* to no other; without such a callback it is discarded.
C9_EveryMessageDelivered ==
  lastMsg.type \in Kinds =>
    /\ ~lastMsg.uncaught /\ lastMsg.logged = "none"
    /\ IF lastMsg.type \in registered THEN OnlyCalled(lastMsg.type)
                                       ELSE lastMsg.calls = NoCalls

\* C9 amended: a message of one of the three kinds that carries a data payload
\* is delivered exactly once to the callback of its kind and to no other; one
\* without a payload, or whose kind has no callback, is discarded with no
\* other effect.
C9_PayloadMessageDelivered ==
  lastMsg.type \in Kinds =>
    /\ ~lastMsg.uncaught /\ lastMsg.logged = "none"
    /\ IF lastMsg.type \in registered /\ lastMsg.hasData
       THEN OnlyCalled(lastMsg.type)
       ELSE lastMsg.calls = NoCalls

C9_Witness ==
  /\ lastMsg.type = "sensor_reading" /\ lastMsg.hasData
  /\ registered = {"sensor_reading", "alert"}
  /\ lastMsg.calls["sensor_reading"] = 1

\* C10: the merge of getChartData holds no two entries with equal timestamp.
C10_NoDuplicateTimestamps ==
  \A i, j \in 1..Len(chart.unique) :
     i # j => chart.unique[i].timestamp # chart.unique[j].timestamp

\* the historical batch holds one timestamp twice and the live buffer holds
\* it too
C10_Witness ==
  /\ chart.room = "r1"
  /\ \E i, j \in 1..Len(chart.db) : \E k \in 1..Len(chart.ws) :
        /\ i # j
        /\ SameTime(chart.db[i].timestamp, chart.db[j].timestamp)
        /\ SameTime(chart.db[i].timestamp, chart.ws[k].timestamp)
  /\ Len(chart.unique) = 1

\* the timestamps of a sequence of data points
Times(arr) == {arr[i].timestamp : i \in 1..Len(arr)}

\* the entries of a sequence of data points
Entries(arr) == {arr[i] : i \in 1..Len(arr)}

\* C11: the timestamps of the merged output of getChartData are
\* non-decreasing, whatever the order of the batch and of the live readings.
C11_OutputNonDecreasing ==
  \A i \in 1..(Len(chart.unique) - 1) :
    chart.unique[i].timestamp <= chart.unique[i + 1].timestamp

\* C12: the merged output of getChartData has at most 50 entries.
C12_AtMostFiftyEntries ==
  /\ Len(chart.unique) <= ChartCap
  /\ Len(chart.data) <= ChartCap

C12_Witness ==
  /\ chart.room = "r1"
  /\ Cardinality(Times(chart.db) \cup Times(chart.ws)) > ChartCap
  /\ Len(chart.unique) = ChartCap

\* C13: merging the merged output again, with no live input, gives the
\* merged output back: same entries, same order, same values.
C13_MergeIdempotent ==
  \A again \in SortResults(chart.unique) : Unique(again) = chart.unique

\* C14: with an empty live buffer, a history at distinct times and one live
\* push at a time the history lacks (fewer than 50 readings in all), the
\* merged output is the history plus the pushed reading in ascending order.
C14_PushInsertedInOrder ==
  ( /\ chart.room = "r1"
    /\ Len(chart.ws) = 1
    /\ Cardinality(Times(chart.db)) = Len(chart.db)
    /\ chart.ws[1].timestamp \notin Times(chart.db)
    /\ Len(chart.db) + 1 < ChartCap )
  => /\ Len(chart.unique) = Len(chart.db) + 1
     /\ Entries(chart.unique) = Entries(chart.db) \cup {chart.ws[1]}
     /\ \A i \in 1..(Len(chart.unique) - 1) :
          chart.unique[i].timestamp < chart.unique[i + 1].timestamp
     /\ Len(chart.data) = Len(chart.unique)

\* history 2, 4, 6 and a push at 5 give 2, 4, 5, 6
C14_Witness ==
  /\ chart.room = "r1"
  /\ Len(chart.db) = 3 /\ Len(chart.ws) = 1
  /\ chart.ws[1].timestamp = 5
  /\ chart.db[1].timestamp = 6
  /\ [i \in 1..Len(chart.unique) |-> chart.unique[i].timestamp] = <<2, 4, 5, 6>>

\* a fetch of the poll o did not succeed
Failed(o) == \E r \in Rooms : o[r].data # "ok" \/ o[r].list # "ok"

\* C15: a polling fetch that fails, by a rejection or by a non-success status
\* for any room, leaves the cached readings and latest reading of every room
\* as they were, and the next fetch is due one interval later.
C15_FailedPollKeepsCache ==
  [][/\ \A o \in MonitoringOutcomes :
          (Failed(o) /\ refetch(o)) =>
             /\ UNCHANGED <<readings, latest>>
             /\ refetchIn'.monitoring = PollInterval
     /\ \A o \in CustomerOutcomes :
          ((\E r \in Rooms : o[r] # "ok") /\ customerRefetch(o)) =>
             /\ UNCHANGED custData
             /\ refetchIn'.customer = CustomerPollInterval]_vars

\* reading k of room r is among what the card of r charts
Shown(r, k) ==
  \A unique \in CardCharts(r) : DataPoint(StoredReadings(k)[k]) \in Entries(unique)

\* C16: every poll schedules the next one a fixed interval later, whatever
\* its outcome and whatever the push channel does, and a reading the backend
\* stored gets into the room's chart once a poll succeeds.
C16_PollingConverges ==
  /\ [][\A o \in MonitoringOutcomes :
          refetch(o) => refetchIn'.monitoring = PollInterval]_vars
  /\ \A r \in Rooms : \A k \in 1..MaxStored : (stored[r] >= k) ~> Shown(r, k)

C16_Witness ==
  /\ stored["r1"] = 2
  /\ Shown("r1", 2)
  /\ ~isConnected
  /\ failures >= 1
  /\ sensorDataMap["r1"] = <<>>

\* C17 as stated: whatever RoomManagement reads from the rooms key after its
\* status mutation succeeded is the server's value of R.
C17_NeverServedStale ==
  readAfter.value # "unread" => readAfter.value = server

\* C17 amended: the success of the status mutation marks the rooms entry
\* invalidated and starts its re-fetch; a read of an entry that is not
\* invalidated (the re-fetch has succeeded) returns the server's value of R.
C17_RefetchedAfterSuccess ==
  /\ [](readAfter.fresh /\ readAfter.value \in Statuses => readAfter.value = server)
  /\ [][(mutation.name = "updateRoomStatusMutation" /\ settle("ok")) =>
          (cache'[RoomsKey].invalidated /\ cache'[RoomsKey].fetching)]_vars

C17_Witness ==
  /\ readAfter = [value |-> "occupied", fresh |-> TRUE]
  /\ server = "occupied"
  /\ mutation.target = "occupied"

\* C18: an entry is invalidated only in the step that observes a mutation's
\* success; a mutation that fails leaves the cache as it was and its error
\* reaches an error handler of the component.
C18_InvalidateOnlyAfterSuccess ==
  [][/\ (\E k \in QueryKeys : cache'[k].invalidated /\ ~cache[k].invalidated) =>
          (mutation.phase = "pending" /\ mutation'.phase = "success")
     /\ (mutation.phase = "pending" /\ mutation'.phase = "error") =>
          (cache' = cache /\ mutation'.surfaced # "none")]_vars

\* C19: every request that is sent carries the bearer credential, and
\* without a session no request is sent.
C19_RequestsCarryCredential ==
  /\ lastRequest.sent => lastRequest.credential
  /\ (lastRequest.via # "none" /\ ~lastRequest.hadSession) => ~lastRequest.sent

\* C20: every mutation that fails with an authorization error redirects to
\* the login flow and is not sent again.
C20_UnauthorizedRedirects ==
  [][settle("unauthorized") =>
       (mutation'.surfaced = "redirect" /\ mutation'.phase = "error")]_vars

\* the inputs of the last getChartData call in the order the merge
\* concatenates them: [...dbData, ...wsData]
Concat == chart.db \o chart.ws

\* C21: every entry of the merged output is the first entry of its timestamp
\* in the historical batch followed by the live buffer: a historical reading
\* wins over a live one of the same time, and the earlier over the later.
C21_FirstOccurrenceWins ==
  \A i \in 1..Len(chart.unique) :
    LET first == FindIndex(Concat, chart.unique[i].timestamp)
    IN  first # 0 /\ chart.unique[i] = Concat[first]

\* the timestamps that parse, of the inputs of the last getChartData call
InputTimes == (Times(chart.db) \cup Times(chart.ws)) \ {NaN}

\* C22: when the inputs hold more than 50 distinct timestamps, the merged
\* output is the 50 entries of the greatest of them.
C22_NewestFiftyKept ==
  (chart.room = "r1" /\ Cardinality(InputTimes) > ChartCap) =>
     /\ Len(chart.unique) = ChartCap
     /\ Times(chart.unique) =
          {t \in InputTimes : Cardinality({u \in InputTimes : u > t}) < ChartCap}

\* C23: after n pushes for a room its live buffer holds the last min(n, 50)
\* points pushed, in arrival order, and so never more than 50.
C23_BufferIsLastFifty ==
  \A r \in Rooms :
    LET buffer == sensorDataMap[r]
        n      == Pushes(r)
    IN  /\ Len(buffer) = Min(n, 50)
        /\ \A i \in 1..Len(buffer) :
             buffer[i] = DataPoint([timestamp |-> n - Len(buffer) + i, temperature |-> 220])

\* more than 50 readings were pushed for r1 and the oldest were dropped
C23_Witness ==
  /\ Pushes("r1") > 50
  /\ Len(sensorDataMap["r1"]) = 50
  /\ sensorDataMap["r1"][1].timestamp = Pushes("r1") - 49

BookingMutations == {"updateBookingMutation", "createBookingMutation"}

\* C24: the success of a booking mutation marks stale every key through
\* which a view shows the bookings, the rooms or the statistics of today.
C24_BookingViewsInvalidated ==
  [][(mutation.name \in BookingMutations /\ settle("ok")) =>
       \A k \in BookingViewKeys : cache'[k].invalidated]_vars

\* C25: a lifecycle mutation is issued only for a booking whose status admits
\* it (check-in: confirmed and started; check-out: in_progress; cancel:
\* confirmed; nothing for completed, cancelled, no_show), and its request
\* names no status.
C25_OnlyPermittedActions ==
  [][\A b \in Bookings : \A action \in Actions :
       onClick(b, action) =>
         /\ action = "checkin"  => (bookingPage.shown[b] = "confirmed" /\ bookingPage.started[b])
         /\ action = "checkout" => bookingPage.shown[b] = "in_progress"
         /\ action = "cancel"   => bookingPage.shown[b] = "confirmed"
         /\ bookingPage.shown[b] \notin {"completed", "cancelled", "no_show"}
         /\ bookingPage'.request.status = "none"]_vars

C26_DismissOnlyOnSuccess ==
  [][\A a \in Alerts : \A outcome \in DismissOutcome :
       dismissAlert(a, outcome) =>
         IF outcome = "ok"
         THEN alertPanel'.alerts = WithoutAlert(alertPanel.alerts, a)
         ELSE alertPanel'.alerts = alertPanel.alerts]_vars

\* the sockets of the instance the hook itself has closed (close() called,
\* close event not delivered yet)
HookClosed(b) == BagCardinality([s \in {x \in BagToSet(b) : x.st = "closing"} |-> b[s]])

\* C27: while the sensor-monitoring view (inline handlers) stays mounted and
\* its current socket is open, no step makes the hook close a socket: only
\* the network or the server closes the open connection.
C27_OnlyNetworkCloses ==
  [][(/\ mounted'
      /\ ~stableHandlers
      /\ \E s \in BagToSet(sockets) : s.ref /\ s.st = "open")
       => HookClosed(sockets') <= HookClosed(sockets)]_vars

\* C28: isConnected is true exactly when the most recently created socket
\* (the one wsRef.current holds) is open.
C28_ConnectedIffCurrentOpen ==
  (mounted /\ NoEventInProgress) =>
    (isConnected <=> \E s \in BagToSet(sockets) : s.ref /\ s.st = "open")

\* C29: a live reading for room r changes the live buffer of r only: the
\* buffers and the merged charts of the other rooms and the fetched readings
\* stay as they are; getChartData changes neither the live buffers nor the
\* fetched readings.
C29_ReadingTouchesOnlyItsRoom ==
  [][/\ \A r \in Rooms : \A reading \in LiveReadings :
          onSensorReading(reading, r) =>
            /\ readings' = readings
            /\ \A o \in Rooms \ {r} :
                 /\ sensorDataMap'[o] = sensorDataMap[o]
                 /\ MergedCharts(o)' = MergedCharts(o)
     /\ \A r \in Rooms :
          getChartData(r) => (sensorDataMap' = sensorDataMap /\ readings' = readings)]_vars

\* the chart of a room with fetched and live data was computed while
\* another room holds a live reading and fetched data of its own
C29_Witness ==
  \E r \in Rooms : \E o \in Rooms \ {r} :
    /\ chart.room = o
    /\ chart.db # <<>> /\ chart.ws # <<>>
    /\ sensorDataMap[r] # <<>> /\ readings[r] # <<>>
    /\ sensorDataMap[r] # sensorDataMap[o]

====
